---- MODULE Spec2Model ----
(***************************************************************************)
(* A model of gostl: the binary STL codec of main.go (ParseStlFile,        *)
(* Model.WriteToFile, Model.BoundingBox and their helpers) and the         *)
(* command that rewrites the normal of the first triangle.                 *)
(*                                                                         *)
(* A file is a sequence of bytes 0..255.  A uint32 is kept as its two      *)
(* 16-bit halves [hi, lo] so that all 32 bits are there without leaving    *)
(* the range of the checker's integers.  A float32 is its three IEEE-754   *)
(* fields [s, e, m]: sign, biased exponent, 23-bit fraction.               *)
(***************************************************************************)
EXTENDS Integers, Sequences, FiniteSets, TLC

stlHeaderSize == 80
stlCountSize == 4
stlFloatSize == 4
stlTriangleSize == 50

VARIABLES
    disk,    \* the file system: what is at each path
    m,       \* the *Model the caller holds
    edited,  \* whether the caller changed m.Triangles since m was made or parsed
    wr,      \* the last WriteToFile call: the triangles it had to write once the
             \* file was created and whether they were edited ones, the kind of
             \* fault it met, its outcome
    rd,      \* the ParseStlFile call whose result the caller still holds
             \* unedited: the kind of fault it met, its outcome
    box,     \* the last BoundingBox result
    pc,      \* the command's position in main
    args,    \* the command's -i and -o flags
    status,  \* the command's exit status once it ended
    n1,      \* main's n1 as it is handed to normalize
    geo      \* operands and results of the vector primitives

vars == << disk, m, edited, wr, rd, box, pc, args, status, n1, geo >>

\* The most triangles a mesh of the library runs holds.
MaxTris == 2

\* A path of the file system: no file there, or a file and its bytes.
NoFile == [exists |-> FALSE, bytes |-> << >>]
File(bytes) == [exists |-> TRUE, bytes |-> bytes]

\* A *Model: nil, or a Model value.
NilModel == [nil |-> TRUE, filepath |-> "", Triangles |-> << >>]
Model(filepath, Triangles) == [nil |-> FALSE, filepath |-> filepath, Triangles |-> Triangles]

Min2(a, b) == IF a < b THEN a ELSE b

RECURSIVE Pow2(_)
Pow2(k) == IF k = 0 THEN 1 ELSE 2 * Pow2(k - 1)

RECURSIVE Log2(_)
Log2(a) == IF a < 2 THEN 0 ELSE 1 + Log2(a \div 2)

Zeros(n) == [i \in 1..n |-> 0]

(***************************************************************************)
(* uint32 and float32 bit patterns                                         *)
(***************************************************************************)

\* uint32(len(m.Triangles)): the length modulo 2^32.
U32OfInt(n) == [hi |-> (n \div 65536) % 65536, lo |-> n % 65536]

\* i < numTriangles for a loop index i that stays below 2^16.
U32Above(u, i) == u.hi > 0 \/ i < u.lo

\* uint32From reading the bytes most significant first.
uint32FromBigEndian(bytes) ==
    [hi |-> bytes[2] + 256 * bytes[1], lo |-> bytes[4] + 256 * bytes[3]]

\* x |= uint32(bytes[i]) << uint(8*i), i = 0..3 (bytes is 1-based here).
uint32From(bytes) ==
    [hi |-> bytes[3] + 256 * bytes[4], lo |-> bytes[1] + 256 * bytes[2]]

\* bytes[i] = byte((u >> uint(8*i)) & 0xff), i = 0..3.
bytesFrom(u) ==
    << u.lo % 256, (u.lo \div 256) % 256, u.hi % 256, (u.hi \div 256) % 256 >>

\* math.Float32bits: sign in bit 31, exponent in bits 30..23, fraction below.
Float32bits(f) ==
    [hi |-> f.s * 32768 + f.e * 128 + f.m \div 65536, lo |-> f.m % 65536]

\* math.Float32frombits.
Float32frombits(u) ==
    [s |-> u.hi \div 32768, e |-> (u.hi \div 128) % 256,
     m |-> (u.hi % 128) * 65536 + u.lo]

\* The float32 of a small integer (|i| < 2^24, so the conversion is exact).
FromInt(i) ==
    IF i = 0 THEN [s |-> 0, e |-> 0, m |-> 0]
    ELSE LET a == IF i < 0 THEN -i ELSE i
             k == Log2(a)
         IN [s |-> IF i < 0 THEN 1 ELSE 0, e |-> 127 + k,
             m |-> (a - Pow2(k)) * Pow2(23 - k)]

V(x, y, z) == << FromInt(x), FromInt(y), FromInt(z) >>

Tri(n, p0, p1, p2) == [Normal |-> n, P0 |-> p0, P1 |-> p1, P2 |-> p2]

(***************************************************************************)
(* float32 arithmetic, round to nearest even.  The operands the runs below *)
(* produce are finite with results in the normal range; a product or sum   *)
(* whose exact significand passes 2^31 is outside what is modelled (the    *)
(* checker stops on it).                                                   *)
(***************************************************************************)

IsNaN(f) == f.e = 255 /\ f.m # 0
IsInf(f) == f.e = 255 /\ f.m = 0
IsZero(f) == f.e = 0 /\ f.m = 0
Neg(f) == [f EXCEPT !.s = 1 - @]
Inf(s) == [s |-> s, e |-> 255, m |-> 0]
Zero(s) == [s |-> s, e |-> 0, m |-> 0]
Xor(a, b) == IF a = b THEN 0 ELSE 1

\* The NaN an invalid operation (0 * Inf, Inf - Inf, 0 / 0) produces: 0xFFC00000
\* on amd64, 0x7FC00000 on arm64.
DefaultNaNs == {[s |-> 1, e |-> 255, m |-> 4194304], [s |-> 0, e |-> 255, m |-> 4194304]}

\* A NaN operand comes back quieted.
Quiet(f) == [f EXCEPT !.m = 4194304 + (@ % 4194304)]

\* M * 2^E with the trailing zero bits of M moved into E.
RECURSIVE Strip(_, _)
Strip(M, E) == IF M # 0 /\ M % 2 = 0 THEN Strip(M \div 2, E + 1) ELSE [M |-> M, E |-> E]

\* The value of a finite float32 as M * 2^E.
Dec(f) == IF f.e = 0 THEN Strip(f.m, -149) ELSE Strip(8388608 + f.m, f.e - 150)

\* The float32 nearest to (-1)^s * (M + x) * 2^E, ties to even, where 0 < x < 1
\* when sticky and x = 0 otherwise (sticky only with M of 25 bits or more).
RoundPack(s, M, E, sticky) ==
    IF M = 0 THEN Zero(s)
    ELSE LET L == Log2(M)
         IN IF L <= 23
            THEN [s |-> s, e |-> E + L + 127, m |-> (M - Pow2(L)) * Pow2(23 - L)]
            ELSE LET shift == L - 23
                     q == M \div Pow2(shift)
                     r == M % Pow2(shift)
                     half == Pow2(shift - 1)
                     up == r > half \/ (r = half /\ (sticky \/ q % 2 = 1))
                     q1 == IF up THEN q + 1 ELSE q
                     carry == IF q1 = 16777216 THEN 1 ELSE 0
                     e == E + shift + 23 + 127 + carry
                 IN IF e >= 255 THEN Inf(s)
                    ELSE [s |-> s, e |-> e,
                          m |-> IF carry = 1 THEN 0 ELSE q1 - 8388608]

\* a * b
FMul(a, b, nan) ==
    CASE IsNaN(a) -> Quiet(a)
      [] IsNaN(b) -> Quiet(b)
      [] (IsInf(a) /\ IsZero(b)) \/ (IsZero(a) /\ IsInf(b)) -> nan
      [] IsInf(a) \/ IsInf(b) -> Inf(Xor(a.s, b.s))
      [] OTHER -> LET x == Dec(a)
                      y == Dec(b)
                  IN RoundPack(Xor(a.s, b.s), x.M * y.M, x.E + y.E, FALSE)

\* a + b
FAdd(a, b, nan) ==
    CASE IsNaN(a) -> Quiet(a)
      [] IsNaN(b) -> Quiet(b)
      [] IsInf(a) /\ IsInf(b) -> IF a.s = b.s THEN a ELSE nan
      [] IsInf(a) -> a
      [] IsInf(b) -> b
      [] IsZero(a) /\ IsZero(b) -> Zero(IF a.s = b.s THEN a.s ELSE 0)
      [] OTHER -> LET x == Dec(a)
                      y == Dec(b)
                      E == IF IsZero(a) THEN y.E ELSE IF IsZero(b) THEN x.E ELSE Min2(x.E, y.E)
                      xm == IF IsZero(a) THEN 0 ELSE x.M * Pow2(x.E - E)
                      ym == IF IsZero(b) THEN 0 ELSE y.M * Pow2(y.E - E)
                      sum == (IF a.s = 1 THEN -xm ELSE xm) + (IF b.s = 1 THEN -ym ELSE ym)
                  IN IF sum = 0 THEN Zero(0)
                     ELSE IF sum < 0 THEN RoundPack(1, -sum, E, FALSE)
                     ELSE RoundPack(0, sum, E, FALSE)

\* a - b
FSub(a, b, nan) == FAdd(a, IF IsNaN(b) THEN b ELSE Neg(b), nan)

\* Quotient bits until the quotient has 26 of them; what is left is sticky.
RECURSIVE DivBits(_, _, _, _)
DivBits(q, r, d, k) ==
    IF q >= 33554432 THEN [q |-> q, r |-> r, k |-> k]
    ELSE IF 2 * r >= d THEN DivBits(2 * q + 1, 2 * r - d, d, k + 1)
    ELSE DivBits(2 * q, 2 * r, d, k + 1)

\* a / b
FDiv(a, b, nan) ==
    CASE IsNaN(a) -> Quiet(a)
      [] IsNaN(b) -> Quiet(b)
      [] (IsInf(a) /\ IsInf(b)) \/ (IsZero(a) /\ IsZero(b)) -> nan
      [] IsInf(a) \/ IsZero(b) -> Inf(Xor(a.s, b.s))
      [] IsInf(b) \/ IsZero(a) -> Zero(Xor(a.s, b.s))
      [] OTHER -> LET x == Dec(a)
                      y == Dec(b)
                      d == DivBits(x.M \div y.M, x.M % y.M, y.M, 0)
                  IN RoundPack(Xor(a.s, b.s), d.q, x.E - y.E - d.k, d.r # 0)

\* The integer square root of X, digit by digit: q*q + r = X, 0 <= r <= 2q.
RECURSIVE ISqrt(_)
ISqrt(X) ==
    IF X = 0 THEN [q |-> 0, r |-> 0]
    ELSE LET h == ISqrt(X \div 4)
             r2 == 4 * h.r + (X % 4)
             t == 4 * h.q + 1
         IN IF r2 >= t THEN [q |-> 2 * h.q + 1, r |-> r2 - t] ELSE [q |-> 2 * h.q, r |-> r2]

\* More bits of the root until it has 26 of them.
RECURSIVE SqrtBits(_, _, _)
SqrtBits(q, r, k) ==
    IF q >= 33554432 THEN [q |-> q, r |-> r, k |-> k]
    ELSE IF 4 * r >= 4 * q + 1 THEN SqrtBits(2 * q + 1, 4 * r - (4 * q + 1), k + 1)
    ELSE SqrtBits(2 * q, 4 * r, k + 1)

\* float32(math.Sqrt(float64(a))): widening is exact, the square root is
\* rounded to 53 bits and then to 24, which is the correctly rounded float32
\* square root (53 >= 2*24 + 2).
FSqrt(a, nan) ==
    CASE IsNaN(a) -> Quiet(a)
      [] IsZero(a) -> a
      [] a.s = 1 -> nan
      [] IsInf(a) -> a
      [] OTHER -> LET x == Dec(a)
                      M == IF x.E % 2 = 0 THEN x.M ELSE 2 * x.M
                      E == IF x.E % 2 = 0 THEN x.E ELSE x.E - 1
                      h == ISqrt(M)
                      d == SqrtBits(h.q, h.r, 0)
                  IN RoundPack(0, d.q, (E \div 2) - d.k, d.r # 0)

\* The order of < and >: false with a NaN on either side; -0 equals +0.
Key(f) == IF f.s = 1 THEN -(f.e * 8388608 + f.m) ELSE f.e * 8388608 + f.m
FLess(a, b) == ~IsNaN(a) /\ ~IsNaN(b) /\ Key(a) < Key(b)
FGreater(a, b) == FLess(b, a)
FEqual(a, b) == ~IsNaN(a) /\ ~IsNaN(b) /\ Key(a) = Key(b)

(***************************************************************************)
(* The vector primitives of the command                                    *)
(***************************************************************************)

dot(a, b, nan) ==
    FAdd(FAdd(FMul(a[1], b[1], nan), FMul(a[2], b[2], nan), nan), FMul(a[3], b[3], nan), nan)

\* cross with the terms of its second component exchanged.
crossWrongSign(a, b, nan) ==
    << FSub(FMul(a[2], b[3], nan), FMul(b[2], a[3], nan), nan),
       FSub(FMul(b[3], a[1], nan), FMul(a[3], b[1], nan), nan),
       FSub(FMul(a[1], b[2], nan), FMul(b[1], a[2], nan), nan) >>

cross(a, b, nan) ==
    << FSub(FMul(a[2], b[3], nan), FMul(b[2], a[3], nan), nan),
       FSub(FMul(a[3], b[1], nan), FMul(b[3], a[1], nan), nan),
       FSub(FMul(a[1], b[2], nan), FMul(b[1], a[2], nan), nan) >>

normalize(a, nan) ==
    LET l == FSqrt(dot(a, a, nan), nan)
        il == FDiv(FromInt(1), l, nan)
    IN [i \in 1..3 |-> FMul(a[i], il, nan)]

(***************************************************************************)
(* The file system calls the codec makes                                   *)
(***************************************************************************)

NoFault == [kind |-> "none", at |-> 0, n |-> 0]

\* writer.Write(buf), the k-th Write of the call (0-based).  *os.File writes
\* all of buf or returns an error with the bytes it did write.
FileWrite(file, buf, fault, k) ==
    IF fault.kind = "io" /\ fault.at = k
    THEN [n |-> Min2(fault.n, Len(buf) - 1), err |-> "EIO",
          file |-> file \o SubSeq(buf, 1, Min2(fault.n, Len(buf) - 1))]
    ELSE [n |-> Len(buf), err |-> "nil", file |-> file \o buf]

\* reader.Read(buf) into a fresh make([]byte, size), the k-th Read of the call:
\* up to size bytes from the offset; (0, io.EOF) at the end of the file.
FileRead(file, off, size, fault, k) ==
    IF fault.kind = "io" /\ fault.at = k
    THEN [n |-> 0, err |-> "EIO", buf |-> Zeros(size)]
    ELSE LET n == Min2(size, Len(file) - off)
         IN [n |-> n, err |-> IF n = 0 THEN "EOF" ELSE "nil",
             buf |-> [i \in 1..size |-> IF i <= n THEN file[off + i] ELSE 0]]

\* A Close that only the success path would reach: the handle stays as it is.
NoDeferredClose(handle) == handle

\* defer f.Close(), run as the function returns: an open handle is closed; on
\* the nil *os.File of a failed open, Close returns ErrInvalid, which the
\* defer drops.
DeferredClose(handle) == IF handle = "open" THEN "closed" ELSE handle

(***************************************************************************)
(* Model.WriteToFile                                                       *)
(***************************************************************************)

\* One loop of lines 78-105: buffer[j+4*i+base] = b for the bytes b of the
\* three components of v; the rest of the buffer stays as it was.
PutVector(buffer, v, base) ==
    SubSeq(buffer, 1, base)
    \o bytesFrom(Float32bits(v[1])) \o bytesFrom(Float32bits(v[2])) \o bytesFrom(Float32bits(v[3]))
    \o SubSeq(buffer, base + 3 * stlFloatSize + 1, Len(buffer))

\* FillBuffer with the offsets of P1 and P2 exchanged.
FillBufferP2BeforeP1(buffer, t) ==
    PutVector(PutVector(PutVector(PutVector(buffer, t.Normal, 0), t.P0, 12), t.P1, 36), t.P2, 24)

\* Lines 78-105: Normal at 0, P0 at 12, P1 at 24, P2 at 36 of the one buffer
\* that every record reuses; bytes 48 and 49 are never assigned.
FillBuffer(buffer, t) ==
    PutVector(PutVector(PutVector(PutVector(buffer, t.Normal, 0), t.P0, 12), t.P1, 24), t.P2, 36)

RECURSIVE WriteTriangles(_, _, _, _, _)
WriteTriangles(ts, i, buffer, file, fault) ==
    IF i > Len(ts) THEN [err |-> "nil", file |-> file]
    ELSE LET buf == FillBuffer(buffer, ts[i])
             w == FileWrite(file, buf, fault, i + 1)
         IN IF w.err # "nil" THEN [err |-> w.err, file |-> w.file]
            ELSE IF w.n < stlTriangleSize
                 THEN [err |-> "could not write Triangle", file |-> w.file]
                 ELSE WriteTriangles(ts, i + 1, buf, w.file, fault)

\* The header buffer: make([]byte, 80) with "STL" copied to its front.
HeaderBuffer == [i \in 1..stlHeaderSize |-> CASE i = 1 -> 83 [] i = 2 -> 84 [] i = 3 -> 76 [] OTHER -> 0]

\* The count of the file the mesh was parsed from, as long as that file says
\* one: a count taken at parse time and not from the mesh as it is now.
TriangleCountOfSource(mesh) ==
    IF mesh.filepath \in DOMAIN disk /\ Len(disk[mesh.filepath].bytes) >= stlHeaderSize + stlCountSize
    THEN uint32From(SubSeq(disk[mesh.filepath].bytes, stlHeaderSize + 1, stlHeaderSize + stlCountSize))
    ELSE U32OfInt(Len(mesh.Triangles))

\* uint32(len(m.Triangles)), line 67.
TriangleCount(mesh) == U32OfInt(Len(mesh.Triangles))

\* m.WriteToFile(filepath) with old at the path: the error returned, what is
\* at the path afterwards, the handle.  os.Create truncates an existing file.
WriteToFile(mesh, old, fault) ==
    IF fault.kind = "open"
    THEN [err |-> "create failed", file |-> old, handle |-> DeferredClose("nil")]
    ELSE LET h == FileWrite(<< >>, HeaderBuffer, fault, 0)
             c == FileWrite(h.file, bytesFrom(TriangleCount(mesh)), fault, 1)
             body == WriteTriangles(mesh.Triangles, 1, Zeros(stlTriangleSize), c.file, fault)
             r == IF h.err # "nil" THEN [err |-> h.err, file |-> h.file]
                  ELSE IF h.n < stlHeaderSize
                       THEN [err |-> "unexpected header length", file |-> h.file]
                  ELSE IF c.err # "nil" THEN [err |-> c.err, file |-> c.file]
                  ELSE IF c.n < stlCountSize
                       THEN [err |-> "unexpected Triangle count", file |-> c.file]
                  ELSE body
         IN [err |-> r.err, file |-> File(r.file), handle |-> DeferredClose("open")]

(***************************************************************************)
(* ParseStlFile                                                            *)
(***************************************************************************)

triangleFrom(bytes) ==
    LET ps == [j \in 0..3 |-> [i \in 1..3 |->
                 LET offset == (i - 1) * stlFloatSize + j * 3 * stlFloatSize
                 IN Float32frombits(uint32From(SubSeq(bytes, offset + 1, offset + 4)))]]
    IN Tri(ps[0], ps[1], ps[2], ps[3])

\* A record read that takes whatever arrived for a whole record.
ShortReadIgnored(n) == FALSE

\* n < stlTriangleSize, line 158.
ShortRead(n) == n < stlTriangleSize

RECURSIVE ReadTriangles(_, _, _, _, _)
ReadTriangles(file, numTriangles, i, Triangles, fault) ==
    IF ~U32Above(numTriangles, i) THEN [err |-> "nil", Triangles |-> Triangles]
    ELSE LET r == FileRead(file, stlHeaderSize + stlCountSize + i * stlTriangleSize,
                           stlTriangleSize, fault, i + 2)
         IN IF r.err # "nil" THEN [err |-> r.err, Triangles |-> << >>]
            ELSE IF ShortRead(r.n)
                 THEN [err |-> "unexpected Triangle byte count", Triangles |-> << >>]
                 ELSE ReadTriangles(file, numTriangles, i + 1,
                                    Append(Triangles, triangleFrom(r.buf)), fault)

\* ParseStlFile(filepath) with entry at the path: the *Model returned, the
\* error, the handle.
ParseStlFile(filepath, entry, fault) ==
    IF ~entry.exists \/ fault.kind = "open"
    THEN [model |-> NilModel, err |-> "open failed", handle |-> DeferredClose("nil")]
    ELSE LET file == entry.bytes
             h == FileRead(file, 0, stlHeaderSize, fault, 0)
             c == FileRead(file, stlHeaderSize, stlCountSize, fault, 1)
             body == ReadTriangles(file, uint32From(c.buf), 0, << >>, fault)
             r == IF h.err # "nil" THEN [err |-> h.err, Triangles |-> << >>]
                  ELSE IF h.n < stlHeaderSize
                       THEN [err |-> "unexpected header length", Triangles |-> << >>]
                  ELSE IF c.err # "nil" THEN [err |-> c.err, Triangles |-> << >>]
                  ELSE IF c.n < stlCountSize
                       THEN [err |-> "unexpected count length", Triangles |-> << >>]
                  ELSE body
         IN [model |-> IF r.err = "nil" THEN Model(filepath, r.Triangles) ELSE NilModel,
             err |-> r.err, handle |-> DeferredClose("open")]

(***************************************************************************)
(* Model.BoundingBox                                                       *)
(***************************************************************************)

RECURSIVE minimumFrom(_, _, _)
minimumFrom(xs, i, mn) ==
    IF i > Len(xs) THEN mn
    ELSE minimumFrom(xs, i + 1, IF FLess(xs[i], mn) THEN xs[i] ELSE mn)

minimum(xs) == minimumFrom(xs, 2, xs[1])

RECURSIVE maximumFrom(_, _, _)
maximumFrom(xs, i, mx) ==
    IF i > Len(xs) THEN mx
    ELSE maximumFrom(xs, i + 1, IF FGreater(xs[i], mx) THEN xs[i] ELSE mx)

maximum(xs) == maximumFrom(xs, 2, xs[1])

\* min and max start from the first normal instead of the first vertex.
BoxStartNormal(mesh) == mesh.Triangles[1].Normal

\* min = m.Triangles[0].P0; max = m.Triangles[0].P0
BoxStart(mesh) == mesh.Triangles[1].P0

RECURSIVE BoxLoop(_, _, _, _)
BoxLoop(ts, i, mn, mx) ==
    IF i > Len(ts) THEN [min |-> mn, max |-> mx]
    ELSE LET t == ts[i]
         IN BoxLoop(ts, i + 1,
                [k \in 1..3 |-> minimum(<< mn[k], t.P0[k], t.P1[k], t.P2[k] >>)],
                [k \in 1..3 |-> maximum(<< mx[k], t.P0[k], t.P1[k], t.P2[k] >>)])

\* m.BoundingBox() of a mesh with at least one triangle.
BoundingBox(mesh) == BoxLoop(mesh.Triangles, 1, BoxStart(mesh), BoxStart(mesh))

(***************************************************************************)
(* The normal correction of main                                           *)
(***************************************************************************)

\* The loop corrects every triangle.
NeverBreak(i) == FALSE

\* if i > 0 { break }, with the 0-based index of the range loop.
LoopBreak(i) == i > 0

\* n1 as line 42 hands it to normalize.
ChosenNormal(t, nan) ==
    LET n0 == t.Normal
        c == cross(t.P0, t.P1, nan)
    IN IF FGreater(dot(n0, c, nan), FromInt(0)) THEN cross(t.P1, t.P0, nan) ELSE c

RECURSIVE FixLoop(_, _, _)
FixLoop(ts, i, nan) ==
    IF i >= Len(ts) \/ LoopBreak(i) THEN ts
    ELSE FixLoop([ts EXCEPT ![i + 1].Normal = normalize(ChosenNormal(ts[i + 1], nan), nan)],
                 i + 1, nan)

\* The parse is taken to have succeeded whatever it returned.
ParseNeverFailed(r) == FALSE

\* err != nil (line 26) or m == nil (line 29): log.Fatal.
ParseFailed(r) == r.err # "nil" \/ r.model.nil

(***************************************************************************)
(* Initial values and inputs                                               *)
(***************************************************************************)


Paths == {"a.stl", "b.stl"}

NoWrite == [called |-> FALSE, tris |-> << >>, edited |-> FALSE, fault |-> "none",
            err |-> "nil", handle |-> "nil"]
NoRead == [called |-> FALSE, fault |-> "none", model |-> NilModel, err |-> "nil",
           handle |-> "nil"]
NoBox == [called |-> FALSE, min |-> V(0, 0, 0), max |-> V(0, 0, 0)]
NoArgs == [input |-> "", output |-> ""]
NoGeo == [a |-> << 0, 0, 0 >>, b |-> << 0, 0, 0 >>, done |-> FALSE,
          ab |-> V(0, 0, 0), ba |-> V(0, 0, 0)]

(***************************************************************************)
(* A caller of the library: builds and edits a mesh, writes it, parses it  *)
(***************************************************************************)

\* A triangle of small integers whose twelve components all differ, and one of
\* unusual bit patterns: a NaN with a payload, -0, +Inf, the smallest denormal,
\* the largest float, -1.5, ...
F32(s, e, f) == [s |-> s, e |-> e, m |-> f]
TriPool ==
    { Tri(V(-1, 2, -3), V(4, -5, 6), V(-7, 8, -9), V(10, -11, 12)),
      Tri(<< F32(1, 255, 513), F32(1, 0, 0), F32(0, 255, 0) >>,
          << F32(0, 0, 1), F32(0, 254, 8388607), F32(1, 127, 4194304) >>,
          << F32(1, 129, 65535), F32(0, 1, 0), F32(0, 128, 255) >>,
          << F32(1, 254, 8388607), F32(0, 100, 32768), F32(1, 0, 8388607) >>) }

LibPath == "a.stl"

\* Which call fails, and after how many bytes of it: none, the open or create,
\* or the k-th Read or Write.
PartialBytes == {3}
Faults(calls) ==
    {NoFault, [kind |-> "open", at |-> 0, n |-> 0]}
    \cup {[kind |-> "io", at |-> k, n |-> b] : k \in 0..(calls - 1), b \in PartialBytes}

NoDisk == [p \in Paths |-> NoFile]

\* No command runs.
NoMain ==
    /\ pc = "lib"
    /\ args = NoArgs
    /\ status = 0
    /\ n1 = V(0, 0, 0)

Init ==
    /\ disk = NoDisk
    /\ m = Model("", << >>)
    /\ edited = FALSE
    /\ wr = NoWrite
    /\ rd = NoRead
    /\ box = NoBox
    /\ geo = NoGeo
    /\ NoMain

\* m.Triangles = append(m.Triangles, t)
AppendTriangle(t) ==
    /\ Len(m.Triangles) < MaxTris
    /\ m' = [m EXCEPT !.Triangles = Append(@, t)]
    /\ rd' = NoRead
    /\ edited' = TRUE
    /\ UNCHANGED << disk, wr, box, pc, args, status, n1, geo >>

\* m.Triangles = append(m.Triangles[:i], m.Triangles[i+1:]...)
RemoveTriangle(i) ==
    /\ i \in 1..Len(m.Triangles)
    /\ m' = [m EXCEPT !.Triangles = SubSeq(@, 1, i - 1) \o SubSeq(@, i + 1, Len(@))]
    /\ rd' = NoRead
    /\ edited' = TRUE
    /\ UNCHANGED << disk, wr, box, pc, args, status, n1, geo >>

\* m.Triangles[i] = t
EditTriangle(i, t) ==
    /\ i \in 1..Len(m.Triangles)
    /\ m.Triangles[i] # t
    /\ m' = [m EXCEPT !.Triangles[i] = t]
    /\ rd' = NoRead
    /\ edited' = TRUE
    /\ UNCHANGED << disk, wr, box, pc, args, status, n1, geo >>

\* err := m.WriteToFile(path)
CallWrite(path, fault) ==
    LET r == WriteToFile(m, disk[path], fault)
    IN /\ disk' = [disk EXCEPT ![path] = r.file]
       /\ wr' = [called |-> TRUE,
                 tris |-> IF fault.kind = "open" THEN << >> ELSE m.Triangles,
                 edited |-> fault.kind # "open" /\ edited,
                 fault |-> fault.kind, err |-> r.err, handle |-> r.handle]
       /\ rd' = NoRead
       /\ UNCHANGED << edited, m, box, pc, args, status, n1, geo >>

\* p, err := ParseStlFile(path); if err == nil { m = p }
CallParse(path, fault) ==
    LET r == ParseStlFile(path, disk[path], fault)
    IN /\ rd' = [called |-> TRUE, fault |-> fault.kind, model |-> r.model,
                 err |-> r.err, handle |-> r.handle]
       /\ m' = IF r.err = "nil" THEN r.model ELSE m
       /\ edited' = (r.err # "nil" /\ edited)
       /\ UNCHANGED << disk, wr, box, pc, args, status, n1, geo >>

Next ==
    \/ \E t \in TriPool : AppendTriangle(t)
    \/ \E i \in 1..MaxTris : RemoveTriangle(i)
    \/ \E i \in 1..MaxTris, t \in TriPool : EditTriangle(i, t)
    \/ \E f \in Faults(MaxTris + 2) : CallWrite(LibPath, f)
    \/ \E f \in Faults(MaxTris + 2) : CallParse(LibPath, f)

Spec == Init /\ [][Next]_vars

(***************************************************************************)
(* Properties of the library runs                                          *)
(***************************************************************************)

written == disk[LibPath].bytes

\* The little-endian bytes of a float32, from its fields.
WordBytes(f) ==
    << f.m % 256, (f.m \div 256) % 256, (f.m \div 65536) + 128 * (f.e % 2),
       128 * f.s + f.e \div 2 >>

Component(t, c) ==
    CASE c \div 3 = 0 -> t.Normal[(c % 3) + 1]
      [] c \div 3 = 1 -> t.P0[(c % 3) + 1]
      [] c \div 3 = 2 -> t.P1[(c % 3) + 1]
      [] c \div 3 = 3 -> t.P2[(c % 3) + 1]

\* C1: a parse that meets no fault, of the file a successful WriteToFile left,
\* succeeds and returns the triangles that were written: as many, in the same
\* order, every component bit for bit.
C1_RoundTrip ==
    (rd.called /\ rd.fault = "none" /\ wr.called /\ wr.err = "nil")
        => /\ rd.err = "nil"
           /\ ~rd.model.nil
           /\ Len(rd.model.Triangles) = Len(wr.tris)
           /\ \A i \in 1..Len(wr.tris) : \A c \in 0..11 :
                 Component(rd.model.Triangles[i], c) = Component(wr.tris[i], c)

C1_Witness ==
    /\ rd.called /\ rd.fault = "none" /\ wr.called /\ wr.err = "nil"
    /\ Len(wr.tris) >= 2 /\ wr.tris[1] # wr.tris[2]
    /\ rd.model.Triangles = wr.tris

\* The file holds what the last WriteToFile call wrote, and that call got as
\* far as the count.
CountWritten == wr.called /\ wr.fault # "open" /\ Len(written) >= stlHeaderSize + stlCountSize

CountField == written[81] + 256 * written[82] + 65536 * written[83]

\* C3: whatever appends, removals and edits came before, the count WriteToFile
\* writes at bytes 80..83 is the length of Triangles at the moment of the
\* write, also when a later Write of the call fails; a call that returns nil
\* has written as many 50-byte records after it.
C3_CountFidelity ==
    CountWritten
        => /\ CountField = Len(wr.tris) /\ written[84] = 0
           /\ wr.err = "nil" =>
                Len(written) = stlHeaderSize + stlCountSize + stlTriangleSize * Len(wr.tris)

\* A mesh that was parsed, edited down to one triangle and then written.
C3_Witness ==
    /\ CountWritten /\ wr.err = "nil"
    /\ m.filepath = LibPath /\ wr.edited /\ m.Triangles = wr.tris
    /\ Len(wr.tris) = 1 /\ CountField = 1

\* C6: a successful WriteToFile of N triangles leaves 84 + 50*N bytes: "STL"
\* and 77 zeros, N as little-endian uint32, then per triangle the twelve
\* components Normal, P0, P1, P2 as little-endian words and two zero bytes.
C6_WireLayout ==
    (wr.called /\ wr.err = "nil")
        => LET N == Len(wr.tris)
           IN /\ Len(written) = 84 + 50 * N
              /\ written[1] = 83 /\ written[2] = 84 /\ written[3] = 76
              /\ \A j \in 4..80 : written[j] = 0
              /\ written[81] = N % 256 /\ written[82] = (N \div 256) % 256
              /\ written[83] = (N \div 65536) % 256 /\ written[84] = 0
              /\ \A i \in 0..(N - 1) :
                    /\ \A c \in 0..11 : \A k \in 1..4 :
                          written[84 + 50 * i + 4 * c + k] = WordBytes(Component(wr.tris[i + 1], c))[k]
                    /\ written[84 + 50 * i + 49] = 0
                    /\ written[84 + 50 * i + 50] = 0

C6_Witness ==
    /\ wr.called /\ wr.err = "nil" /\ Len(wr.tris) >= 2 /\ wr.tris[1] # wr.tris[2]
    /\ Len(written) = 84 + 50 * Len(wr.tris)

Released(call, openError) ==
    call.called =>
        /\ call.handle # "open"
        /\ call.handle = "closed" <=> call.err # openError
        /\ call.handle = "nil" <=> call.err = openError

\* C7: when ParseStlFile or WriteToFile has returned, by whatever path, the
\* handle it opened is closed; when the open or create failed there is no
\* handle, and the error returned is that of the open or create.
C7_HandleReleased ==
    /\ Released(wr, "create failed")
    /\ Released(rd, "open failed")

\* A write and a parse that each ended on an I/O error after the open.
C7_Witness ==
    /\ wr.called /\ wr.err = "EIO" /\ wr.handle = "closed"
    /\ rd.called /\ rd.err \notin {"nil", "open failed"} /\ rd.handle = "closed"

(***************************************************************************)
(* Parsing byte streams that are cut short or declare another count        *)
(***************************************************************************)

Meshes == UNION {[1..n -> TriPool] : n \in 0..MaxTris}

\* The counts a stream declares: small ones, 65536 (low half zero) and 2^32-1.
DeclaredCounts ==
    {U32OfInt(k) : k \in 0..(MaxTris + 1)} \cup {[hi |-> 1, lo |-> 0], [hi |-> 65535, lo |-> 65535]}

\* The first len bytes of the file of tris with count in place of its count.
Stream(tris, count, len) ==
    LET whole == WriteToFile(Model("", tris), NoFile, NoFault).file.bytes
        told == [j \in 1..Len(whole) |->
                    IF j > stlHeaderSize /\ j <= stlHeaderSize + stlCountSize
                    THEN bytesFrom(count)[j - stlHeaderSize] ELSE whole[j]]
    IN SubSeq(told, 1, len)

InitTrunc ==
    /\ \E tris \in Meshes, count \in DeclaredCounts :
         \E len \in 0..(stlHeaderSize + stlCountSize + stlTriangleSize * Len(tris)) :
            disk = [NoDisk EXCEPT ![LibPath] = File(Stream(tris, count, len))]
    /\ m = Model("", << >>)
    /\ edited = FALSE
    /\ wr = NoWrite
    /\ rd = NoRead
    /\ box = NoBox
    /\ geo = NoGeo
    /\ NoMain

NextTrunc == \E f \in Faults(MaxTris + 2) : ~rd.called /\ CallParse(LibPath, f)

SpecTrunc == InitTrunc /\ [][NextTrunc]_vars

\* The count a stream of at least 84 bytes declares is below 2^16, and then
\* its value.
SmallCount == written[83] = 0 /\ written[84] = 0
LowCount == written[81] + 256 * written[82]

TooShort ==
    \/ Len(written) < 84
    \/ ~SmallCount
    \/ Len(written) < 84 + 50 * LowCount

BoxPool ==
    { Tri(V(0, 0, 1), V(0, 0, 0), V(1, 0, 0), V(0, 1, 0)),
      Tri(V(9, 9, 9), V(-3, 5, 2), V(4, -6, 1), V(-1, 2, 7)),
      Tri(V(-9, -9, -9), V(2, 2, -8), V(-5, 1, 3), V(6, -2, -4)),
      Tri(V(0, 0, 0), V(3, 3, 3), V(-4, 8, -1), V(5, -7, 9)) }

BoxNormals == {V(9, 9, 9), V(-9, -9, -9)}

InitBox ==
    /\ \E n \in 1..MaxTris : \E tris \in [1..n -> BoxPool] : m = Model("", tris)
    /\ disk = NoDisk
    /\ edited = FALSE
    /\ wr = NoWrite
    /\ rd = NoRead
    /\ box = NoBox
    /\ geo = NoGeo
    /\ NoMain

\* min, max := m.BoundingBox()
CallBoundingBox ==
    /\ Len(m.Triangles) > 0
    /\ box' = [called |-> TRUE, min |-> BoundingBox(m).min, max |-> BoundingBox(m).max]
    /\ UNCHANGED << edited, disk, m, wr, rd, pc, args, status, n1, geo >>

\* m.Triangles[i].Normal = n: the caller moves to a mesh that differs from the
\* one it measured in a normal only, and keeps the box it has.
SetNormal(i, n) ==
    /\ i \in 1..Len(m.Triangles)
    /\ m.Triangles[i].Normal # n
    /\ m' = [m EXCEPT !.Triangles[i].Normal = n]
    /\ edited' = TRUE
    /\ UNCHANGED << disk, wr, rd, box, pc, args, status, n1, geo >>

NextBox ==
    \/ CallBoundingBox
    \/ \E i \in 1..MaxTris, n \in BoxNormals : SetNormal(i, n)

SpecBox == InitBox /\ [][NextBox]_vars

\* The k-th coordinates of the vertices of the mesh.
Coords(k) == UNION {{m.Triangles[i].P0[k], m.Triangles[i].P1[k], m.Triangles[i].P2[k]} :
                        i \in 1..Len(m.Triangles)}

\* C4: per axis, min is the smallest and max the largest vertex coordinate of
\* the mesh; a box taken before normals were changed is the box of the mesh
\* after the change.
C4_BoundingBox ==
    box.called =>
        /\ \A k \in 1..3 :
              /\ box.min[k] \in Coords(k) /\ \A c \in Coords(k) : ~FLess(c, box.min[k])
              /\ box.max[k] \in Coords(k) /\ \A c \in Coords(k) : ~FGreater(c, box.max[k])
        /\ BoundingBox(m).min = box.min
        /\ BoundingBox(m).max = box.max

\* Two triangles, the box taken, then a normal changed; neither corner is a
\* vertex of the first triangle alone.
C4_Witness ==
    /\ box.called /\ Len(m.Triangles) = 2
    /\ \E i \in 1..2 : m.Triangles[i].Normal \in BoxNormals /\ m.Triangles[i] \notin BoxPool
    /\ box.min # m.Triangles[1].P0 /\ box.max # m.Triangles[1].P0
    /\ box.min[1] # box.max[1]

(***************************************************************************)
(* The cross product                                                       *)
(***************************************************************************)

\* The largest component of the vectors that are crossed.
MaxCoord == 2

Ints == (0 - MaxCoord)..MaxCoord

InitGeom ==
    /\ \E a \in Ints \X Ints \X Ints, b \in Ints \X Ints \X Ints :
          geo = [NoGeo EXCEPT !.a = a, !.b = b]
    /\ disk = NoDisk
    /\ m = Model("", << >>)
    /\ edited = FALSE
    /\ wr = NoWrite
    /\ rd = NoRead
    /\ box = NoBox
    /\ NoMain

\* ab := cross(a, b); ba := cross(b, a).  Products and differences of finite
\* operands are never invalid operations, so the platform's NaN plays no part.
CallCross ==
    /\ ~geo.done
    /\ LET a == V(geo.a[1], geo.a[2], geo.a[3])
           b == V(geo.b[1], geo.b[2], geo.b[3])
           nan == CHOOSE n \in DefaultNaNs : TRUE
       IN geo' = [geo EXCEPT !.done = TRUE, !.ab = cross(a, b, nan), !.ba = cross(b, a, nan)]
    /\ UNCHANGED << edited, disk, m, wr, rd, box, pc, args, status, n1 >>

NextGeom == CallCross

SpecGeom == InitGeom /\ [][NextGeom]_vars

\* The integer a finite float32 of integral value holds.
ToInt(f) ==
    IF IsZero(f) THEN 0
    ELSE LET d == Dec(f) IN (IF f.s = 1 THEN -1 ELSE 1) * d.M * Pow2(d.E)

\* C8: every component of cross(a, b) is the negation of that of cross(b, a),
\* and cross(a, b) = (ay*bz - by*az, az*bx - bz*ax, ax*by - bx*ay).
C8_CrossAntisymmetry ==
    geo.done =>
        LET a == geo.a
            b == geo.b
        IN /\ \A k \in 1..3 : ToInt(geo.ab[k]) = 0 - ToInt(geo.ba[k])
           /\ ToInt(geo.ab[1]) = a[2] * b[3] - b[2] * a[3]
           /\ ToInt(geo.ab[2]) = a[3] * b[1] - b[3] * a[1]
           /\ ToInt(geo.ab[3]) = a[1] * b[2] - b[1] * a[2]

C8_Witness ==
    /\ geo.done
    /\ geo.a = << 1, 2, -2 >> /\ geo.b = << -1, 2, 1 >>
    /\ ToInt(geo.ab[1]) = 6 /\ ToInt(geo.ab[2]) = 1 /\ ToInt(geo.ab[3]) = 4
    /\ ToInt(geo.ba[1]) = -6

(***************************************************************************)
(* The command: main                                                       *)
(***************************************************************************)

InPath == "a.stl"
OutPath == "b.stl"

\* First triangles: every stored normal with every pair of vertices, among
\* them parallel and zero vertices (a zero cross product) and normals on
\* either side of, and at right angles to, the cross product.
MainNormals == {V(0, 0, 1), V(0, 0, -1), V(1, 1, 1), V(0, 0, 0), V(-1, 0, 2)}
MainVerts == {V(1, 0, 0), V(0, 1, 0), V(0, 0, 0), V(-1, 2, 0), V(1, 1, 1), V(2, 0, -1)}
FirstTris == {Tri(n, p0, p1, V(0, 0, 0)) : n \in MainNormals, p0 \in MainVerts, p1 \in MainVerts}

\* A second triangle whose normal the correction would reverse.
SecondTri == Tri(V(0, 0, 1), V(0, 1, 0), V(1, 0, 0), V(3, 3, 3))

MainMeshes == {<< >>} \cup {<< t >> : t \in FirstTris} \cup {<< t, SecondTri >> : t \in FirstTris}

\* What is at the input path: nothing, a file cut inside its only record, or
\* the file of a mesh.
MainInputs ==
    {NoFile, File(Stream(<< SecondTri >>, U32OfInt(1), 100))}
    \cup {File(Stream(tris, U32OfInt(Len(tris)), 84 + 50 * Len(tris))) : tris \in MainMeshes}

InitMain ==
    /\ \E file \in MainInputs : disk = [NoDisk EXCEPT ![InPath] = file]
    /\ \E i \in {"", InPath}, o \in {"", OutPath, InPath} : args = [input |-> i, output |-> o]
    /\ pc = "flags"
    /\ status = -1
    /\ n1 = V(0, 0, 0)
    /\ m = NilModel
    /\ edited = FALSE
    /\ wr = NoWrite
    /\ rd = NoRead
    /\ box = NoBox
    /\ geo = NoGeo

\* Lines 14-23: with a flag missing, usage and os.Exit(1).
MainFlags ==
    /\ pc = "flags"
    /\ IF args.input = "" \/ args.output = ""
       THEN pc' = "exit" /\ status' = 1
       ELSE pc' = "parse" /\ status' = status
    /\ UNCHANGED << edited, disk, m, wr, rd, box, args, n1, geo >>

\* Lines 25-31: m, err := stl.ParseStlFile(input); log.Fatal exits with 1.
MainParse(fault) ==
    /\ pc = "parse"
    /\ LET r == ParseStlFile(args.input, disk[args.input], fault)
       IN /\ rd' = [called |-> TRUE, fault |-> fault.kind, model |-> r.model,
                    err |-> r.err, handle |-> r.handle]
          /\ IF ParseFailed(r)
             THEN pc' = "exit" /\ status' = 1 /\ m' = m
             ELSE pc' = "fix" /\ status' = status /\ m' = r.model
    /\ UNCHANGED << edited, disk, wr, box, args, n1, geo >>

\* Lines 33-44: the loop over m.Triangles.
MainFix(nan) ==
    /\ pc = "fix"
    /\ m' = [m EXCEPT !.Triangles = FixLoop(@, 0, nan)]
    /\ n1' = IF Len(m.Triangles) > 0 THEN ChosenNormal(m.Triangles[1], nan) ELSE n1
    /\ pc' = "write"
    /\ edited' = (Len(m.Triangles) > 0)
    /\ UNCHANGED << disk, wr, rd, box, args, status, geo >>

\* Lines 46-50: err = m.WriteToFile(output); log.Fatal exits with 1, the end
\* of main with 0.
MainWrite(fault) ==
    /\ pc = "write"
    /\ LET r == WriteToFile(m, disk[args.output], fault)
       IN /\ disk' = [disk EXCEPT ![args.output] = r.file]
          /\ wr' = [called |-> TRUE,
                    tris |-> IF fault.kind = "open" THEN << >> ELSE m.Triangles,
                    edited |-> fault.kind # "open" /\ edited,
                    fault |-> fault.kind, err |-> r.err, handle |-> r.handle]
          /\ status' = IF r.err # "nil" THEN 1 ELSE 0
    /\ pc' = "exit"
    /\ UNCHANGED << edited, m, rd, box, args, n1, geo >>

NextMain ==
    \/ MainFlags
    \/ \E f \in Faults(3) : MainParse(f)
    \/ \E nan \in DefaultNaNs : MainFix(nan)
    \/ \E f \in Faults(3) : MainWrite(f)

SpecMain == InitMain /\ [][NextMain]_vars

Corrected == pc \in {"write", "exit"} /\ rd.called /\ rd.err = "nil"

VecEqual(a, b) == \A k \in 1..3 : FEqual(a[k], b[k])

\* C5 as stated: the vector handed to normalize for the first triangle is
\* cross(P0, P1) when dot(n, cross(P0, P1)) > 0 and cross(P1, P0) otherwise, and
\* the normal stored has a non-negative dot product with n.
C5_SignPolicy ==
    (Corrected /\ Len(m.Triangles) > 0) =>
        \A nan \in DefaultNaNs :
            LET t == rd.model.Triangles[1]
                candidate == cross(t.P0, t.P1, nan)
                stored == m.Triangles[1].Normal
            IN /\ VecEqual(n1, IF FGreater(dot(t.Normal, candidate, nan), FromInt(0))
                               THEN candidate ELSE cross(t.P1, t.P0, nan))
               /\ (\A k \in 1..3 : ~IsNaN(stored[k]))
                     => ~FLess(dot(stored, t.Normal, nan), FromInt(0))

\* C9: the mesh handed to WriteToFile has the triangles of the parsed mesh, as
\* many and in the same order, and differs from it at most in the Normal of
\* the first; an empty mesh is written empty and nothing is corrected.
C9_SingleTriangleScope ==
    Corrected =>
        LET parsed == rd.model.Triangles
            SameButNormal(ts) ==
                /\ Len(ts) = Len(parsed)
                /\ \A i \in 1..Len(parsed) :
                      /\ ts[i].P0 = parsed[i].P0 /\ ts[i].P1 = parsed[i].P1
                      /\ ts[i].P2 = parsed[i].P2
                      /\ i > 1 => ts[i].Normal = parsed[i].Normal
        IN /\ SameButNormal(m.Triangles)
           /\ (wr.called /\ wr.fault # "open") => SameButNormal(wr.tris)
           /\ (wr.called /\ wr.err = "nil") =>
                 Len(disk[args.output].bytes) = 84 + 50 * Len(parsed)
           /\ Len(parsed) = 0 => n1 = V(0, 0, 0)

\* Two triangles were parsed, the first normal was changed, the file written.
C9_Witness ==
    /\ Corrected /\ wr.called /\ wr.err = "nil"
    /\ Len(rd.model.Triangles) = 2
    /\ wr.tris[1].Normal # rd.model.Triangles[1].Normal
    /\ wr.tris[2] = SecondTri

\* C10: WriteToFile is called, and the file system changed, only once both
\* paths were given and ParseStlFile had returned without error; a missing
\* path ends the run with a non-zero status before any parse or write; a
\* failed parse ends it with a non-zero status and no write; the status is
\* zero only after a parse and a write that both succeeded.
C10_FailFast ==
    /\ [](/\ wr.called => (args.input # "" /\ args.output # "" /\ rd.called /\ rd.err = "nil")
          /\ rd.called => (args.input # "" /\ args.output # "")
          /\ (pc # "flags" /\ (args.input = "" \/ args.output = ""))
                => (pc = "exit" /\ status = 1 /\ ~rd.called /\ ~wr.called)
          /\ (rd.called /\ rd.err # "nil") => (pc = "exit" /\ status = 1 /\ ~wr.called)
          /\ pc = "exit" <=> status # -1
          /\ status = 0 => (rd.called /\ rd.err = "nil" /\ wr.called /\ wr.err = "nil"))
    /\ [][disk' # disk => (~wr.called /\ wr'.called /\ rd.called /\ rd.err = "nil")]_vars

\* A run that parsed, wrote and ended with status zero, and one is enough to
\* show the order: the output file exists.
C10_Witness ==
    /\ pc = "exit" /\ status = 0
    /\ rd.called /\ wr.called
    /\ args.output = OutPath /\ disk[OutPath].exists

====
